---------------------------- MODULE Spec2Model ----------------------------
(***************************************************************************)
(* A model of the three Arduino sketches of the repository:                *)
(*   PortExpander.ino         MCP23017 I/O expander, interrupt bridge      *)
(*   OutputShiftRegister.ino  74HC595 serial-in parallel-out register      *)
(*   InputShiftRegister.ino   74HC165 parallel-in serial-out register      *)
(* Each sketch is its own program; each has its own specification below.   *)
(***************************************************************************)
EXTENDS Naturals, Integers, Sequences, FiniteSets, TLC

(***************************************************************************)
(* Bounds of the model.                                                    *)
(***************************************************************************)
\* Environment events (switch changes, glitches on INTB) in one run of the
\* PortExpander model.
MaxEvents == 3
\* Changes of the 74HC165's inputs in one run of the InputShiftRegister model.
MaxToggles == 2
MaxCalls == 2
MaxTicks == 3

(***************************************************************************)
(* Program constants.                                                      *)
(***************************************************************************)
LOW == 0
HIGH == 1
\* The number of pins of a port; the bound of the pin search loop.
NumPins == 8

Byte == 0..255
Pins == 0..(NumPins - 1)

(***************************************************************************)
(* Arduino bit helpers, as the sketches use them.                          *)
(***************************************************************************)
RECURSIVE Pow2(_)
Pow2(n) == IF n = 0 THEN 1 ELSE 2 * Pow2(n - 1)

\* bitRead(value, bit): ((value) >> (bit)) & 0x01
bitRead(b, i) == (b \div Pow2(i)) % 2

\* bitSet(value, bit): value |= (1UL << bit), kept to 8 bits (uint8_t)
bitSet(b, i) == IF i >= 8 \/ bitRead(b, i) = 1 THEN b ELSE b + Pow2(i)

\* A faulty variant: the bit's weight is subtracted without testing the bit.
bitClear_Subtracts(b, i) == IF i >= 8 THEN b ELSE (b + 256 - Pow2(i)) % 256

\* bitClear(value, bit): value &= ~(1UL << bit)
bitClear(b, i) == IF i >= 8 \/ bitRead(b, i) = 0 THEN b ELSE b - Pow2(i)

\* The byte whose bit i is f[i].
ByteOfBits(f) ==
    f[0] + 2 * f[1] + 4 * f[2] + 8 * f[3] + 16 * f[4] + 32 * f[5]
         + 64 * f[6] + 128 * f[7]

\* The byte b with the pins of S inverted.
TogglePins(b, S) ==
    ByteOfBits([i \in 0..7 |-> IF i \in S THEN 1 - bitRead(b, i) ELSE bitRead(b, i)])

\* Bytes a and b have the same bits except, possibly, bit i.
SameOtherBits(a, b, i) ==
    \A j \in Pins : j # i => bitRead(a, j) = bitRead(b, j)

VARIABLES
    \* ---- PortExpander.ino ----
    switches,         \* port B pin values as read through GPIOB (polarity applied)
    gpioA,            \* port A output latch (the LEDs)
    intf,             \* the expander's INTFB register
    intcap,           \* the expander's INTCAPB register
    intActive,        \* the expander asserts INTB (the line is LOW)
    irq,              \* a falling edge on D2 was seen, the callback has not run yet
    switchDidChange,  \* the sketch's global flag
    pc,               \* position of the main loop
    body,             \* the handler loop() calls
    flagB,            \* local of readAndWritePinOnInputChange
    capB,             \* local of readAndWritePinOnInputChange
    pin,              \* local of readAndWritePinOnInputChange
    value,            \* local of readAndWritePinOnInputChange
    portVal,          \* the byte portCopy carries from readPort to writePort
    cycle,            \* history: what the handler did since it observed the flag
    midIsr,           \* history: the callback ran since the handler observed the flag
    events,           \* environment events so far
    \* ---- OutputShiftRegister.ino ----
    osrDataPin,       \* level of D2, the 74HC595's SER
    osrLatchPin,      \* level of D3, the 74HC595's RCLK
    osrClockPin,      \* level of D4, the 74HC595's SRCLK
    osrShift,         \* the 74HC595's shift register, bit i is the stage of output i
    osrOut,           \* the 74HC595's storage register: the outputs QA (bit 0) - QH (bit 7)
    osrPc,            \* position inside osrWriteRegister
    osrI,             \* shiftOut's loop counter
    osrArg,           \* the parameter of osrWriteRegister
    osrBefore,        \* history: the outputs when osrWriteRegister was entered
    \* ---- InputShiftRegister.ino ----
    isrInputs,        \* the levels of the 74HC165's inputs A (bit 0) - H (bit 7)
    isrReg,           \* the 74HC165's shift register, bit 7 is the stage driving QH
    isrLatchPin,      \* level of D3, the 74HC165's SH/LD
    isrClockPin,      \* level of D4, the 74HC165's CLK
    isrPc,            \* position inside isrReadRegister
    isrI,             \* shiftIn's loop counter
    isrVal,           \* the byte shiftIn assembles
    isrRet,           \* the byte the last call of isrReadRegister returned
    isrSnap,          \* history: the inputs when the last call raised the latch line (0: no call yet)
    isrToggles,       \* input changes so far
    \* ---- the bit helpers of the Arduino core, as the sketches use them ----
    bitB,             \* the byte the helpers are applied to
    bitI,             \* the bit index
    bitAfterSet,      \* the byte after bitSet(b, i)
    bitAfterClear,    \* the byte after the bitClear(.., i) that was done last
    bitPc,            \* which helpers have been applied
    \* ---- OutputShiftRegister.ino: osrDigitalWrite, setup and loop ----
    outputs,          \* osrDigitalWrite's static byte
    dwPc,             \* position inside osrDigitalWrite
    dwPin,            \* the parameter pin of osrDigitalWrite
    dwValue,          \* the parameter value of osrDigitalWrite
    dwBefore,         \* history: the 74HC595's outputs when osrDigitalWrite was entered
    fn,               \* the function that is running
    ip,               \* the statements of fn done so far
    localOutputs,     \* the local byte of changeOutputsWithBitOperations
    holds,            \* history: the 74HC595's outputs at each delay(1000) of fn
    \* ---- InputShiftRegister.ino: the callers of isrReadRegister ----
    readerPc,         \* position of the function that calls isrReadRegister
    previousInputs,   \* readAndPrintInputsOnChange's static byte
    currentInputs,    \* readAndPrintInputsOnChange's local byte
    printed,          \* the digits the last call printed (<<>>: it printed nothing)
    lastPrinted,      \* history: the digits printed last, by any call
    lastRead,         \* history: the byte the last completed call read (0: no call yet)
    \* ---- the passes of loop(): PortExpander.ino and InputShiftRegister.ino ----
    passes,           \* history: parity of the passes that ended at the test of their condition
    millis,           \* the millisecond counter, 32 bits as <<high half, low half>>
    previousTime,     \* loop()'s static unsigned long, in the same form
    currentTime,      \* loop()'s local unsigned long, in the same form
    loopPc,           \* position of InputShiftRegister.ino's loop()
    samplePin,        \* the input readInputsWithDigitalRead reads next
    sampled,          \* the levels readInputsWithDigitalRead has printed, input A first
    elapsed,          \* history: the milliseconds since the time of the last sample (since 0 before it)
    elapsedAtRead,    \* history: elapsed when loop() read millis()
    ticks             \* advances of the counter so far

peVars == <<switches, gpioA, intf, intcap, intActive, irq, switchDidChange, pc,
            body, flagB, capB, pin, value, portVal, cycle, midIsr, events>>

osrVars == <<osrDataPin, osrLatchPin, osrClockPin, osrShift, osrOut, osrPc, osrI,
             osrArg, osrBefore>>

isrVars == <<isrInputs, isrReg, isrLatchPin, isrClockPin, isrPc, isrI, isrVal,
             isrRet, isrSnap, isrToggles>>

bitVars == <<bitB, bitI, bitAfterSet, bitAfterClear, bitPc>>

\* What the callers of the register functions and the helper checks keep.
osrCallVars == <<outputs, dwPc, dwPin, dwValue, dwBefore, fn, ip, localOutputs,
                 holds>>

isrCallVars == <<readerPc, previousInputs, currentInputs, printed, lastPrinted,
                 lastRead>>

loopVars == <<passes, millis, previousTime, currentTime, loopPc, samplePin,
              sampled, elapsed, elapsedAtRead, ticks>>

callerVars == <<bitVars, osrCallVars, isrCallVars, loopVars>>

vars == <<peVars, osrVars, isrVars, callerVars>>

(***************************************************************************)
(* PortExpander.ino: the environment (switches, the MCP23017, the INTB     *)
(* line and the microcontroller's external interrupt).                     *)
(***************************************************************************)
\* The sets of switches that may change at the same instant.
ChangeSets == {{i} : i \in Pins} \cup {{0, 2}}

\* Reading INTCAPB or GPIOB clears the expander's interrupt condition on
\* port B: INTFB reads 0 again and INTB is released.
ExpanderCleared ==
    /\ intf' = 0
    /\ intActive' = FALSE

\* Switches of S change. With interrupt-on-change enabled on all of port B
\* and no interrupt outstanding, the expander records the pins in INTFB, the
\* port value in INTCAPB and pulls INTB LOW: a falling edge on D2. While an
\* interrupt is outstanding the registers keep what they hold.
InputChange(S) ==
    /\ events < MaxEvents
    /\ events' = events + 1
    /\ switches' = TogglePins(switches, S)
    /\ IF intActive
         THEN UNCHANGED <<intf, intcap, intActive, irq>>
         ELSE /\ intf' = TogglePins(0, S)
              /\ intcap' = switches'
              /\ intActive' = TRUE
              /\ irq' = TRUE
    /\ UNCHANGED <<gpioA, switchDidChange, pc, body, flagB, capB, pin, value,
                   portVal, cycle, midIsr>>
    /\ UNCHANGED <<osrVars, isrVars, callerVars>>

\* A falling edge on D2 that the expander did not cause (noise on the line,
\* which only the microcontroller's pull-up holds HIGH).
SpuriousEdge ==
    /\ events < MaxEvents
    /\ events' = events + 1
    /\ ~intActive
    /\ ~irq
    /\ irq' = TRUE
    /\ UNCHANGED <<switches, gpioA, intf, intcap, intActive, switchDidChange, pc,
                   body, flagB, capB, pin, value, portVal, cycle, midIsr>>
    /\ UNCHANGED <<osrVars, isrVars, callerVars>>

(***************************************************************************)
(* PortExpander.ino: the program. The callback preempts the loop: once a   *)
(* falling edge is seen no step of the loop runs before the callback has   *)
(* (the guard ~irq of the loop's steps); between any two steps of the loop *)
(* the environment and the callback may act.                               *)
(***************************************************************************)
\* A faulty variant: the callback inverts the flag instead of setting it.
mcp23017ChangeDetectedOnPortB_Toggles ==
    /\ irq
    /\ irq' = FALSE
    /\ switchDidChange' = ~switchDidChange
    /\ midIsr' = (pc # "idle")
    /\ UNCHANGED <<switches, gpioA, intf, intcap, intActive, pc, body, flagB,
                   capB, pin, value, portVal, cycle, events>>
    /\ UNCHANGED <<osrVars, isrVars, callerVars>>

\* A faulty variant: the callback itself reads INTCAP to clear the expander's interrupt.
mcp23017ChangeDetectedOnPortB_ClearsInterrupt ==
    /\ irq
    /\ irq' = FALSE
    /\ switchDidChange' = TRUE
    /\ midIsr' = (pc # "idle")
    /\ ExpanderCleared
    /\ UNCHANGED <<switches, gpioA, intcap, pc, body, flagB, capB, pin, value,
                   portVal, cycle, events>>
    /\ UNCHANGED <<osrVars, isrVars, callerVars>>

\* void mcp23017ChangeDetectedOnPortB() { switchDidChange = true; }
\* The callback is attached to the FALLING edge of D2 and preempts the loop.
mcp23017ChangeDetectedOnPortB ==
    /\ irq
    /\ irq' = FALSE
    /\ switchDidChange' = TRUE
    /\ midIsr' = (pc # "idle")
    /\ UNCHANGED <<switches, gpioA, intf, intcap, intActive, pc, body, flagB,
                   capB, pin, value, portVal, cycle, events>>
    /\ UNCHANGED <<osrVars, isrVars, callerVars>>

\* A faulty variant: the flag resets itself when the loop reads it.
LoopObserve_ConsumesFlag ==
    /\ pc = "idle"
    /\ ~irq
    /\ switchDidChange
    /\ switchDidChange' = FALSE
    /\ pc' = "delay"
    /\ cycle' = <<>>
    /\ midIsr' = FALSE
    /\ UNCHANGED <<switches, gpioA, intf, intcap, intActive, irq, body, flagB,
                   capB, pin, value, portVal, events>>
    /\ UNCHANGED <<osrVars, isrVars, callerVars>>

\* if (switchDidChange) { ... : the loop observes the flag set.
LoopObserve ==
    /\ pc = "idle"
    /\ ~irq
    /\ switchDidChange
    /\ pc' = "delay"
    /\ cycle' = <<>>
    /\ midIsr' = FALSE
    /\ UNCHANGED <<switches, gpioA, intf, intcap, intActive, irq, switchDidChange,
                   body, flagB, capB, pin, value, portVal, events>>
    /\ UNCHANGED <<osrVars, isrVars, callerVars>>

\* A faulty variant: instead of a fixed delay the handler waits until the
\* expander shows its interrupt asserted.
SettleDelay_WaitsForInterrupt ==
    /\ pc = "delay"
    /\ ~irq
    /\ intActive
    /\ pc' = IF body = "pin" THEN "intf" ELSE "readport"
    /\ cycle' = Append(cycle, "delay")
    /\ UNCHANGED <<switches, gpioA, intf, intcap, intActive, irq, switchDidChange,
                   body, flagB, capB, pin, value, portVal, midIsr, events>>
    /\ UNCHANGED <<osrVars, isrVars, callerVars>>

\* delay(100);
SettleDelay ==
    /\ pc = "delay"
    /\ ~irq
    /\ pc' = IF body = "pin" THEN "intf" ELSE "readport"
    /\ cycle' = Append(cycle, "delay")
    /\ UNCHANGED <<switches, gpioA, intf, intcap, intActive, irq, switchDidChange,
                   body, flagB, capB, pin, value, portVal, midIsr, events>>
    /\ UNCHANGED <<osrVars, isrVars, callerVars>>

\* mcp23017.interruptedBy(flagA, flagB);  reads INTFA/INTFB
PinInterruptedBy ==
    /\ pc = "intf"
    /\ ~irq
    /\ flagB' = intf
    /\ pc' = "intcap"
    /\ cycle' = Append(cycle, "readINTF")
    /\ UNCHANGED <<switches, gpioA, intf, intcap, intActive, irq, switchDidChange,
                   body, capB, pin, value, portVal, midIsr, events>>
    /\ UNCHANGED <<osrVars, isrVars, callerVars>>

\* A faulty variant: the handler does not call clearInterrupts.
PinClearInterrupts_Omitted ==
    /\ pc = "intcap"
    /\ ~irq
    /\ pc' = "resolve"
    /\ UNCHANGED <<switches, gpioA, intf, intcap, intActive, irq, switchDidChange,
                   body, flagB, capB, pin, value, portVal, cycle, midIsr, events>>
    /\ UNCHANGED <<osrVars, isrVars, callerVars>>

\* mcp23017.clearInterrupts(capA, capB);  reads INTCAPA/INTCAPB
PinClearInterrupts ==
    /\ pc = "intcap"
    /\ ~irq
    /\ capB' = intcap
    /\ ExpanderCleared
    /\ pc' = "resolve"
    /\ cycle' = Append(cycle, "readINTCAP")
    /\ UNCHANGED <<switches, gpioA, intcap, irq, switchDidChange, body, flagB,
                   pin, value, portVal, midIsr, events>>
    /\ UNCHANGED <<osrVars, isrVars, callerVars>>

\* A faulty variant: the search runs from pin 7 down and finds the highest set bit.
RECURSIVE SearchDown(_, _)
SearchDown(f, p) ==
    IF p > 0 /\ bitRead(f, p) = 0 THEN SearchDown(f, p - 1) ELSE p

PinSearch_FromTop(f, p) ==
    IF f = 0 THEN NumPins ELSE SearchDown(f, NumPins - 1)

\* for (pin = 0; pin < 8; pin++) { if (bitRead(flagB, pin)) break; }
RECURSIVE PinSearch(_, _)
PinSearch(f, p) ==
    IF p < NumPins /\ bitRead(f, p) = 0 THEN PinSearch(f, p + 1) ELSE p

\* uint8_t pin = 0; for (...) ...; uint8_t value = bitRead(capB, pin);
PinResolve ==
    /\ pc = "resolve"
    /\ ~irq
    /\ pin' = PinSearch(flagB, 0)
    /\ value' = bitRead(capB, pin')
    /\ pc' = "write"
    /\ UNCHANGED <<switches, gpioA, intf, intcap, intActive, irq, switchDidChange,
                   body, flagB, capB, portVal, cycle, midIsr, events>>
    /\ UNCHANGED <<osrVars, isrVars, callerVars>>

\* mcp23017.digitalWrite(pin, value): pins 0-7 are GPIOA, pins 8-15 GPIOB; the
\* library reads the GPIO register, sets or clears the bit and writes it back.
\* Port B is all inputs: a write to GPIOB changes no pin, its read clears the
\* port's interrupt.
PinDigitalWrite ==
    /\ pc = "write"
    /\ ~irq
    /\ IF pin < 8
         THEN /\ gpioA' = IF value = HIGH THEN bitSet(gpioA, pin)
                                         ELSE bitClear(gpioA, pin)
              /\ cycle' = cycle \o <<"readGPIOA", "writeGPIOA">>
              /\ UNCHANGED <<intf, intActive>>
         ELSE /\ gpioA' = gpioA
              /\ cycle' = cycle \o <<"readGPIOB", "writeGPIOB">>
              /\ ExpanderCleared
    /\ pc' = "clearflag"
    /\ UNCHANGED <<switches, intcap, irq, switchDidChange, body, flagB, capB,
                   pin, value, portVal, midIsr, events>>
    /\ UNCHANGED <<osrVars, isrVars, callerVars>>

\* portCopy(): mcp23017.readPort(MCP23017Port::B)  reads GPIOB
PortRead ==
    /\ pc = "readport"
    /\ ~irq
    /\ portVal' = switches
    /\ ExpanderCleared
    /\ pc' = "writeport"
    /\ cycle' = Append(cycle, "readGPIOB")
    /\ UNCHANGED <<switches, gpioA, intcap, irq, switchDidChange, body, flagB,
                   capB, pin, value, midIsr, events>>
    /\ UNCHANGED <<osrVars, isrVars, callerVars>>

\* portCopy(): mcp23017.writePort(MCP23017Port::A, ...)  writes GPIOA
PortWrite ==
    /\ pc = "writeport"
    /\ ~irq
    /\ gpioA' = portVal
    /\ pc' = "portclear"
    /\ cycle' = Append(cycle, "writeGPIOA")
    /\ UNCHANGED <<switches, intf, intcap, intActive, irq, switchDidChange, body,
                   flagB, capB, pin, value, portVal, midIsr, events>>
    /\ UNCHANGED <<osrVars, isrVars, callerVars>>

\* mcp23017.clearInterrupts();  reads INTCAPA/INTCAPB and drops the values
PortClearInterrupts ==
    /\ pc = "portclear"
    /\ ~irq
    /\ ExpanderCleared
    /\ pc' = "clearflag"
    /\ cycle' = Append(cycle, "readINTCAP")
    /\ UNCHANGED <<switches, gpioA, intcap, irq, switchDidChange, body, flagB,
                   capB, pin, value, portVal, midIsr, events>>
    /\ UNCHANGED <<osrVars, isrVars, callerVars>>

\* switchDidChange = false;  and the handler returns (its locals die).
ClearFlag ==
    /\ pc = "clearflag"
    /\ ~irq
    /\ switchDidChange' = FALSE
    /\ pc' = "idle"
    /\ flagB' = 0
    /\ capB' = 0
    /\ pin' = 0
    /\ value' = 0
    /\ portVal' = 0
    /\ UNCHANGED <<switches, gpioA, intf, intcap, intActive, irq, body, cycle,
                   midIsr, events>>
    /\ UNCHANGED <<osrVars, isrVars, callerVars>>

(***************************************************************************)
(* Claims about the PortExpander sketch.                                   *)
(***************************************************************************)
\* The steps of the callback, of the handler's final assignment, and the
\* positions between the handler observing the flag and returning.
IsrStep == irq /\ ~irq'
FlagSet == ~switchDidChange /\ switchDidChange'
FlagCleared == switchDidChange /\ ~switchDidChange'
HandlerReturns == pc = "clearflag" /\ pc' = "idle"
InHandler == pc # "idle"

\* C1: an interrupt whose callback runs after the loop has observed
\* switchDidChange true and before the handler returns is preserved: when
\* the handler returns, the flag is still set, so the next loop iteration
\* services it.
C1_SecondInterruptPreserved ==
    [][(HandlerReturns /\ midIsr) => switchDidChange']_vars

\* C2: once set, the flag stays true whatever else the main loop does, and
\* becomes false only by the handler's assignment switchDidChange = false.
C2_FlagHeldUntilExplicitClear ==
    [][FlagCleared => HandlerReturns]_vars

\* C2 witness: the flag, set by the callback, is still true after the loop has
\* done all the work of a cycle and is about to assign false.
C2_Witness ==
    pc = "clearflag" /\ switchDidChange /\ Len(cycle) >= 3

\* The settle delay, then a read of a snapshot register (INTF in the pin
\* handler, GPIOB in the port handler), then the read of INTCAP by which
\* clearInterrupts clears the expander's interrupt, in this order in the
\* handler's history.
SettledReadCleared ==
    \E i, j, k \in 1..Len(cycle) :
        /\ i < j
        /\ j < k
        /\ cycle[i] = "delay"
        /\ cycle[j] \in {"readINTF", "readGPIOB"}
        /\ cycle[k] = "readINTCAP"

\* C3: in both handlers the flag goes from true to false only after, in this
\* order in the same cycle, the settle delay, the register reads and
\* clearInterrupts.
C3_ClearAfterDelayReadClear ==
    [][FlagCleared => SettledReadCleared]_vars

\* C3 witness: a cycle of the handler has completed with the flag cleared.
C3_Witness ==
    pc = "idle" /\ ~switchDidChange /\ Len(cycle) >= 3

\* C4: the flag starts false; only the callback takes it from false to true,
\* only the main loop takes it from true to false; the callback touches
\* nothing of the main loop and the main loop nothing of the callback.
C4_OneSetterOneClearer ==
    /\ switchDidChange = FALSE
    /\ [][/\ FlagSet => IsrStep
          /\ FlagCleared => ~IsrStep /\ ~irq /\ pc # pc'
          /\ IsrStep => UNCHANGED <<pc, flagB, capB, pin, value, portVal>>
          /\ pc # pc' => UNCHANGED irq]_vars

\* C4 witness: the callback has set the flag while the loop was inside the
\* handler, an interleaving of the two contexts.
C4_Witness ==
    switchDidChange /\ midIsr /\ ~irq /\ pc = "resolve"

\* The lowest-indexed set bit of a byte with a bit set.
LowestSetBit(f) ==
    CHOOSE p \in Pins : bitRead(f, p) = 1 /\ \A q \in 0..(p - 1) : bitRead(f, q) = 0

\* C5: with a bit set in flagB, the handler resolves the lowest-indexed set
\* bit, takes bit pin of the capture register (not of the live port) as the
\* value, and writes it to output pin of port A and to no other output.
C5_LowestBitCaptureValueOneOutput ==
    [][(pc = "write" /\ pc' = "clearflag" /\ flagB # 0) =>
          LET p == LowestSetBit(flagB) IN
          /\ pin = p
          /\ capB = intcap
          /\ value = bitRead(intcap, p)
          /\ \A i \in Pins :
                bitRead(gpioA', i) = IF i = p THEN value ELSE bitRead(gpioA, i)
          /\ cycle' = cycle \o <<"readGPIOA", "writeGPIOA">>]_vars

\* C5 witness: flag 0b00000101 has resolved to pin 0, whose captured value is
\* HIGH while the live switch is LOW again, and LED 0 was switched on.
C5_Witness ==
    /\ pc = "clearflag"
    /\ flagB = 5
    /\ pin = 0
    /\ value = HIGH
    /\ bitRead(switches, 0) = LOW
    /\ gpioA = 1

C7_CallbackOnlySetsFlag ==
    [][IsrStep => /\ switchDidChange'
                  /\ UNCHANGED <<switches, gpioA, intf, intcap, intActive, pc, body,
                                 flagB, capB, pin, value, portVal, cycle>>]_vars

\* C7 witness: the callback has run while the expander held its interrupt
\* registers set and its interrupt asserted; they are as they were.
C7_Witness ==
    switchDidChange /\ ~irq /\ intActive /\ intf # 0 /\ pc = "idle"

\* C17: the interrupt bridge never wedges: the loop is never outside the
\* handler with the flag false and no callback due while the expander still
\* holds INTB LOW (no falling edge can come any more).
C17_NeverWedged ==
    ~(pc = "idle" /\ ~switchDidChange /\ ~irq /\ intActive)

\* C19: with readAndWritePortOnInputChange as the loop body, once the
\* switches have stopped changing the outputs of port A come to equal the
\* switches and stay equal.
C19_OutputsFollowSwitches ==
    (body = "port") => <>[](gpioA = switches)

\* C20: every pass through a handler ends (the loop is back outside the
\* handler), and the pin search has stopped after at most 8 iterations, at a
\* pin in 0..8, for every flag byte, 0 included.
C20_HandlersTerminate ==
    /\ [](pin <= NumPins)
    /\ (pc # "idle") ~> (pc = "idle")

\* C20 witness: the search over the flag byte 0 has ended, after 8
\* iterations, and the handler is at its last statement.
C20_Witness ==
    pc = "clearflag" /\ body = "pin" /\ flagB = 0 /\ pin = NumPins

(***************************************************************************)
(* OutputShiftRegister.ino: the 74HC595 and osrWriteRegister.              *)
(***************************************************************************)
\* The bytes the outputs may hold when osrWriteRegister is entered: the ones
\* the sketch itself latches, and all outputs on.
LatchedBefore == {0, 2, 64, 85, 170, 255}

\* digitalWrite(OSRClockPin, level): a rising edge of SRCLK moves every stage
\* of the shift register one place on (QA to QB, ... , QG to QH) and takes
\* SER into the first stage.
HC595Clock(level) ==
    /\ osrClockPin' = level
    /\ osrShift' = IF osrClockPin = LOW /\ level = HIGH
                     THEN ((2 * osrShift) % 256) + osrDataPin
                     ELSE osrShift

\* digitalWrite(OSRLatchPin, level): a rising edge of RCLK copies the shift
\* register into the storage register, which drives the outputs.
HC595Latch(level) ==
    /\ osrLatchPin' = level
    /\ osrOut' = IF osrLatchPin = LOW /\ level = HIGH THEN osrShift ELSE osrOut

\* osrWriteRegister(outputs) is entered.
osrWriteRegister(b) ==
    /\ osrPc = "call"
    /\ osrPc' = "latchlow"
    /\ osrArg' = b
    /\ osrBefore' = osrOut
    /\ UNCHANGED <<osrDataPin, osrLatchPin, osrClockPin, osrShift, osrOut, osrI>>
    /\ UNCHANGED <<peVars, isrVars, callerVars>>

\* A faulty variant: the latch line is not driven LOW before the shift.
OsrLatchLow_Omitted ==
    /\ osrPc = "latchlow"
    /\ osrI' = 0
    /\ osrPc' = "data"
    /\ UNCHANGED <<osrDataPin, osrLatchPin, osrClockPin, osrShift, osrOut, osrArg,
                   osrBefore>>
    /\ UNCHANGED <<peVars, isrVars, callerVars>>

\* digitalWrite(OSRLatchPin, LOW);
OsrLatchLow ==
    /\ osrPc = "latchlow"
    /\ HC595Latch(LOW)
    /\ osrI' = 0
    /\ osrPc' = "data"
    /\ UNCHANGED <<osrDataPin, osrClockPin, osrShift, osrArg, osrBefore>>
    /\ UNCHANGED <<peVars, isrVars, callerVars>>

\* A faulty variant: the byte is shifted out least significant bit first.
OsrShiftData_LsbFirst ==
    /\ osrPc = "data"
    /\ osrDataPin' = bitRead(osrArg, osrI)
    /\ osrPc' = "clockhigh"
    /\ UNCHANGED <<osrLatchPin, osrClockPin, osrShift, osrOut, osrI, osrArg, osrBefore>>
    /\ UNCHANGED <<peVars, isrVars, callerVars>>

\* shiftOut, MSBFIRST: digitalWrite(dataPin, (val & 128) != 0); val <<= 1;
\* in iteration i that is bit 7 - i of the byte.
OsrShiftData ==
    /\ osrPc = "data"
    /\ osrDataPin' = bitRead(osrArg, 7 - osrI)
    /\ osrPc' = "clockhigh"
    /\ UNCHANGED <<osrLatchPin, osrClockPin, osrShift, osrOut, osrI, osrArg, osrBefore>>
    /\ UNCHANGED <<peVars, isrVars, callerVars>>

\* shiftOut: digitalWrite(clockPin, HIGH);
OsrShiftClockHigh ==
    /\ osrPc = "clockhigh"
    /\ HC595Clock(HIGH)
    /\ osrPc' = "clocklow"
    /\ UNCHANGED <<osrDataPin, osrLatchPin, osrOut, osrI, osrArg, osrBefore>>
    /\ UNCHANGED <<peVars, isrVars, callerVars>>

\* shiftOut: digitalWrite(clockPin, LOW); and the loop's i++, i < 8
OsrShiftClockLow ==
    /\ osrPc = "clocklow"
    /\ HC595Clock(LOW)
    /\ osrI' = osrI + 1
    /\ osrPc' = IF osrI + 1 < 8 THEN "data" ELSE "latchhigh"
    /\ UNCHANGED <<osrDataPin, osrLatchPin, osrOut, osrArg, osrBefore>>
    /\ UNCHANGED <<peVars, isrVars, callerVars>>

\* digitalWrite(OSRLatchPin, HIGH); and osrWriteRegister returns.
OsrLatchHigh ==
    /\ osrPc = "latchhigh"
    /\ HC595Latch(HIGH)
    /\ osrPc' = "ret"
    /\ UNCHANGED <<osrDataPin, osrClockPin, osrShift, osrI, osrArg, osrBefore>>
    /\ UNCHANGED <<peVars, isrVars, callerVars>>

\* The sketch between two writes: the byte p is latched on the outputs, the
\* latch line is HIGH and the clock line LOW, as osrWriteRegister(p) left them.
OsrAfterWrite(p) ==
    /\ osrDataPin = bitRead(p, 0)
    /\ osrLatchPin = HIGH
    /\ osrClockPin = LOW
    /\ osrShift = p
    /\ osrOut = p
    /\ osrPc = "call"
    /\ osrI = 0
    /\ osrArg = 0
    /\ osrBefore = p

(***************************************************************************)
(* Claims about osrWriteRegister.                                          *)
(***************************************************************************)
\* The positions of osrWriteRegister between the latch line going LOW and
\* its rising edge.
OsrShifting == osrPc \in {"data", "clockhigh", "clocklow", "latchhigh"}

\* C8: during osrWriteRegister(b) the outputs never show an intermediate
\* value: the latch line is LOW before the first shift clock and through all
\* 8 of them, the outputs hold the byte latched before, and they change only
\* at the rising edge of the latch line after 8 bits, in one step, to b.
C8_OutputsChangeOnlyAtLatch ==
    [][/\ OsrShifting => osrLatchPin = LOW /\ osrOut = osrBefore
       /\ (osrClockPin = LOW /\ osrClockPin' = HIGH) => osrLatchPin = LOW
       /\ osrOut' # osrOut =>
            /\ osrPc = "latchhigh"
            /\ osrI = 8
            /\ osrLatchPin = LOW /\ osrLatchPin' = HIGH
            /\ osrOut' = osrArg]_vars

\* C8 witness: four bits have been shifted, the shift register holds a value
\* that is neither the old nor the new byte, the outputs still show the old.
C8_Witness ==
    /\ osrPc = "data"
    /\ osrI = 4
    /\ osrShift \notin {osrBefore, osrArg}
    /\ osrOut = osrBefore
    /\ osrBefore = 170
    /\ osrArg = 85

\* C9: after osrWriteRegister(b) returns, output i is HIGH exactly when bit
\* i of b is 1, whatever byte was latched before.
C9_OutputPinsEqualBits ==
    osrPc = "ret" =>
        \A i \in Pins : (bitRead(osrOut, i) = HIGH) <=> (bitRead(osrArg, i) = 1)

\* C9 witness: 0b00000010 was written over all outputs on: pin 1 is HIGH, all
\* other pins LOW.
C9_Witness ==
    /\ osrPc = "ret"
    /\ osrArg = 2
    /\ osrBefore = 255
    /\ \A i \in Pins : bitRead(osrOut, i) = IF i = 1 THEN HIGH ELSE LOW

(***************************************************************************)
(* InputShiftRegister.ino: the 74HC165 and isrReadRegister.                *)
(***************************************************************************)
\* The level of the 74HC165's serial input SER, which the circuit leaves unused.
HC165Ser == LOW

\* The data pin D2 reads QH, the last stage of the shift register.
HC165QH == bitRead(isrReg, 7)

\* digitalWrite(ISRClockPin, level): with SH/LD HIGH a rising edge of CLK
\* shifts the register one stage towards QH; with SH/LD LOW the register
\* follows the parallel inputs and the clock does nothing.
HC165Clock(level) ==
    /\ isrClockPin' = level
    /\ isrReg' = IF isrLatchPin = HIGH /\ isrClockPin = LOW /\ level = HIGH
                   THEN ((2 * isrReg) % 256) + HC165Ser
                   ELSE isrReg

\* digitalWrite(ISRLatchPin, level): while SH/LD is LOW the register is
\* loaded from the parallel inputs; HIGH holds what it has.
HC165Latch(level) ==
    /\ isrLatchPin' = level
    /\ isrReg' = IF level = LOW THEN isrInputs ELSE isrReg

\* Input i changes its level, at any time.
IsrInputChange(i) ==
    /\ isrToggles < MaxToggles
    /\ isrToggles' = isrToggles + 1
    /\ isrInputs' = TogglePins(isrInputs, {i})
    /\ isrReg' = IF isrLatchPin = LOW THEN isrInputs' ELSE isrReg
    /\ UNCHANGED <<isrLatchPin, isrClockPin, isrPc, isrI, isrVal, isrRet, isrSnap>>
    /\ UNCHANGED <<peVars, osrVars, callerVars>>

\* isrReadRegister() is entered: uint8_t inputs = 0;
isrReadRegister ==
    /\ isrPc = "idle"
    /\ isrPc' = "presetclock"
    /\ isrVal' = 0
    /\ isrI' = 0
    /\ UNCHANGED <<isrInputs, isrReg, isrLatchPin, isrClockPin, isrRet, isrSnap,
                   isrToggles>>
    /\ UNCHANGED <<peVars, osrVars, callerVars>>

\* A faulty variant: the clock line is not preset HIGH.
IsrPresetClock_Omitted ==
    /\ isrPc = "presetclock"
    /\ isrPc' = "latchhigh"
    /\ UNCHANGED <<isrInputs, isrReg, isrLatchPin, isrClockPin, isrI, isrVal,
                   isrRet, isrSnap, isrToggles>>
    /\ UNCHANGED <<peVars, osrVars, callerVars>>

\* digitalWrite(ISRClockPin, HIGH);  preset clock to retrieve first bit
IsrPresetClock ==
    /\ isrPc = "presetclock"
    /\ HC165Clock(HIGH)
    /\ isrPc' = "latchhigh"
    /\ UNCHANGED <<isrInputs, isrLatchPin, isrI, isrVal, isrRet, isrSnap, isrToggles>>
    /\ UNCHANGED <<peVars, osrVars, callerVars>>

\* digitalWrite(ISRLatchPin, HIGH);
IsrLatchHigh ==
    /\ isrPc = "latchhigh"
    /\ HC165Latch(HIGH)
    /\ isrSnap' = isrInputs
    /\ isrI' = 0
    /\ isrPc' = "clockhigh"
    /\ UNCHANGED <<isrInputs, isrClockPin, isrVal, isrRet, isrToggles>>
    /\ UNCHANGED <<peVars, osrVars, callerVars>>

\* shiftIn: digitalWrite(clockPin, HIGH);
IsrShiftClockHigh ==
    /\ isrPc = "clockhigh"
    /\ HC165Clock(HIGH)
    /\ isrPc' = "read"
    /\ UNCHANGED <<isrInputs, isrLatchPin, isrI, isrVal, isrRet, isrSnap, isrToggles>>
    /\ UNCHANGED <<peVars, osrVars, callerVars>>

\* A faulty variant: the byte is assembled least significant bit first.
IsrShiftRead_LsbFirst ==
    /\ isrPc = "read"
    /\ isrVal' = IF HC165QH = HIGH THEN bitSet(isrVal, isrI) ELSE isrVal
    /\ isrPc' = "clocklow"
    /\ UNCHANGED <<isrInputs, isrReg, isrLatchPin, isrClockPin, isrI, isrRet,
                   isrSnap, isrToggles>>
    /\ UNCHANGED <<peVars, osrVars, callerVars>>

\* shiftIn, MSBFIRST: value |= digitalRead(dataPin) << (7 - i);
IsrShiftRead ==
    /\ isrPc = "read"
    /\ isrVal' = IF HC165QH = HIGH THEN bitSet(isrVal, 7 - isrI) ELSE isrVal
    /\ isrPc' = "clocklow"
    /\ UNCHANGED <<isrInputs, isrReg, isrLatchPin, isrClockPin, isrI, isrRet,
                   isrSnap, isrToggles>>
    /\ UNCHANGED <<peVars, osrVars, callerVars>>

\* shiftIn: digitalWrite(clockPin, LOW); and the loop's ++i, i < 8
IsrShiftClockLow ==
    /\ isrPc = "clocklow"
    /\ HC165Clock(LOW)
    /\ isrI' = isrI + 1
    /\ isrPc' = IF isrI + 1 < 8 THEN "clockhigh" ELSE "latchlow"
    /\ UNCHANGED <<isrInputs, isrLatchPin, isrVal, isrRet, isrSnap, isrToggles>>
    /\ UNCHANGED <<peVars, osrVars, callerVars>>

\* digitalWrite(ISRLatchPin, LOW);
IsrLatchLow ==
    /\ isrPc = "latchlow"
    /\ HC165Latch(LOW)
    /\ isrPc' = "return"
    /\ UNCHANGED <<isrInputs, isrClockPin, isrI, isrVal, isrRet, isrSnap, isrToggles>>
    /\ UNCHANGED <<peVars, osrVars, callerVars>>

\* return inputs;  (the local dies with the call)
IsrReturn ==
    /\ isrPc = "return"
    /\ isrRet' = isrVal
    /\ isrVal' = 0
    /\ isrPc' = "idle"
    /\ UNCHANGED <<isrInputs, isrReg, isrLatchPin, isrClockPin, isrI, isrSnap,
                   isrToggles>>
    /\ UNCHANGED <<peVars, osrVars, callerVars>>

\* After setup(): both lines are outputs at LOW, so the register follows the
\* inputs in, whatever position the switches are in.
IsrAfterSetup(in) ==
    /\ isrInputs = in
    /\ isrReg = in
    /\ isrLatchPin = LOW
    /\ isrClockPin = LOW
    /\ isrPc = "idle"
    /\ isrI = 0
    /\ isrVal = 0
    /\ isrRet = 0
    /\ isrSnap = 0
    /\ isrToggles = 0

(***************************************************************************)
(* Claims about isrReadRegister.                                           *)
(***************************************************************************)
\* C10: every call of isrReadRegister returns the byte whose bit i is the
\* level input i had when the call raised the latch line, whatever the inputs
\* do between and during calls: the first bit sampled is input H and each
\* later one the next input down, the latch line is HIGH during the 8 shifts,
\* and it is LOW again on return, the register following the inputs.
C10_ReadReturnsInputsAtLatch ==
    /\ isrPc \in {"clockhigh", "read", "clocklow"} => isrLatchPin = HIGH
    /\ isrPc = "clocklow" =>
         \A j \in (7 - isrI)..7 : bitRead(isrVal, j) = bitRead(isrSnap, j)
    /\ isrPc = "return" => isrVal = isrSnap
    /\ isrPc = "idle" =>
         /\ isrRet = isrSnap
         /\ isrLatchPin = LOW
         /\ isrReg = isrInputs

\* C10 witness: a call has returned 0b10000001, the inputs H and A as they
\* were when it raised the latch line, although input H fell during the call.
C10_Witness ==
    /\ isrPc = "idle"
    /\ isrRet = 129
    /\ isrSnap = 129
    /\ isrInputs = 1

(***************************************************************************)
(* OutputShiftRegister.ino: osrDigitalWrite and the callers of the two     *)
(* write functions.                                                        *)
(***************************************************************************)
\* Before anything has called: the static byte has its initializer.
OsrCallersAtRest ==
    /\ outputs = 0
    /\ dwPc = "idle"
    /\ dwPin = 0
    /\ dwValue = LOW
    /\ dwBefore = 0
    /\ fn = "none"
    /\ ip = 0
    /\ localOutputs = 0
    /\ holds = <<>>

\* Values of the parameter value that are neither LOW nor HIGH.
OtherValues == {2, 255}

\* A faulty variant: the byte is not kept between calls (static left out).
osrDigitalWrite_NotRetained(p, v) ==
    /\ dwPc = "idle"
    /\ osrPc = "call"
    /\ outputs' = IF v = HIGH THEN bitSet(0, p)
                  ELSE IF v = LOW THEN bitClear(0, p)
                  ELSE 0
    /\ dwPc' = "write"
    /\ dwPin' = p
    /\ dwValue' = v
    /\ dwBefore' = osrOut
    /\ UNCHANGED <<fn, ip, localOutputs, holds>>
    /\ UNCHANGED <<peVars, osrVars, isrVars, bitVars, isrCallVars, loopVars>>

\* osrDigitalWrite(pin, value) is entered:
\*    if (value == HIGH) bitSet(outputs, pin);
\*    else if (value == LOW) bitClear(outputs, pin);
osrDigitalWrite(p, v) ==
    /\ dwPc = "idle"
    /\ osrPc = "call"
    /\ outputs' = IF v = HIGH THEN bitSet(outputs, p)
                  ELSE IF v = LOW THEN bitClear(outputs, p)
                  ELSE outputs
    /\ dwPc' = "write"
    /\ dwPin' = p
    /\ dwValue' = v
    /\ dwBefore' = osrOut
    /\ UNCHANGED <<fn, ip, localOutputs, holds>>
    /\ UNCHANGED <<peVars, osrVars, isrVars, bitVars, isrCallVars, loopVars>>

\* osrDigitalWrite: osrWriteRegister(outputs);
DwWriteRegister ==
    /\ dwPc = "write"
    /\ osrWriteRegister(outputs)

\* osrWriteRegister returns to its caller: its parameter is gone.
OsrWriteRegisterReturns ==
    /\ osrPc = "ret"
    /\ osrPc' = "call"
    /\ osrI' = 0
    /\ osrArg' = 0
    /\ osrBefore' = osrOut
    /\ UNCHANGED <<osrDataPin, osrLatchPin, osrClockPin, osrShift, osrOut>>
    /\ UNCHANGED <<peVars, isrVars, bitVars, isrCallVars, loopVars>>

\* osrWriteRegister returns to osrDigitalWrite, and that to its caller.
DwReturns ==
    /\ dwPc = "write"
    /\ OsrWriteRegisterReturns
    /\ dwPc' = "idle"
    /\ ip' = ip + 1
    /\ UNCHANGED <<outputs, dwPin, dwValue, dwBefore, fn, localOutputs, holds>>

\* osrWriteRegister returns to a function that called it directly.
WriteReturns ==
    /\ dwPc = "idle"
    /\ OsrWriteRegisterReturns
    /\ ip' = ip + 1
    /\ UNCHANGED <<outputs, dwPc, dwPin, dwValue, dwBefore, fn, localOutputs, holds>>

\* The statements of the sketch's functions, in the order of the source.
DigitalWrite(p, v) == <<"osrDigitalWrite", p, v>>
WriteRegister(b) == <<"osrWriteRegister", b, 0>>
WriteOutputs == <<"osrWriteRegister(outputs)", 0, 0>>
BitSetOutputs(p) == <<"bitSet", p, 0>>
BitClearOutputs(p) == <<"bitClear", p, 0>>
Delay == <<"delay", 0, 0>>

\* a | b on bytes
BitOr(a, b) ==
    ByteOfBits([i \in 0..7 |-> IF bitRead(a, i) = 1 \/ bitRead(b, i) = 1 THEN 1 ELSE 0])

\* setup(), after the pinMode calls
setup ==
    << WriteRegister(0), Delay >>

changeOutputsWithDigitalWrite ==
    LET LED0 == 0  LED1 == 1  LED2 == 2  LED3 == 3
        LED4 == 4  LED5 == 5  LED6 == 6  LED7 == 7
    IN  << DigitalWrite(LED1, HIGH), Delay,
           DigitalWrite(LED1, LOW), DigitalWrite(LED6, HIGH), Delay,
           DigitalWrite(LED6, LOW), Delay,
           DigitalWrite(LED0, HIGH), DigitalWrite(LED2, HIGH),
           DigitalWrite(LED4, HIGH), DigitalWrite(LED6, HIGH), Delay,
           DigitalWrite(LED0, LOW), DigitalWrite(LED2, LOW),
           DigitalWrite(LED4, LOW), DigitalWrite(LED6, LOW),
           DigitalWrite(LED1, HIGH), DigitalWrite(LED3, HIGH),
           DigitalWrite(LED5, HIGH), DigitalWrite(LED7, HIGH), Delay,
           DigitalWrite(LED1, LOW), DigitalWrite(LED3, LOW),
           DigitalWrite(LED5, LOW), DigitalWrite(LED7, LOW), Delay >>

changeOutputsWithBinaryValues ==
    << WriteRegister(2), Delay,
       WriteRegister(64), Delay,
       WriteRegister(0), Delay,
       WriteRegister(85), Delay,
       WriteRegister(170), Delay,
       WriteRegister(0), Delay >>

changeOutputsWithDefinedNames ==
    LET LED0 == 1   LED1 == 2   LED2 == 4   LED3 == 8
        LED4 == 16  LED5 == 32  LED6 == 64  LED7 == 128
    IN  << WriteRegister(LED1), Delay,
           WriteRegister(LED6), Delay,
           WriteRegister(0), Delay,
           WriteRegister(BitOr(BitOr(BitOr(LED0, LED2), LED4), LED6)), Delay,
           WriteRegister(BitOr(BitOr(BitOr(LED1, LED3), LED5), LED7)), Delay,
           WriteRegister(0), Delay >>

changeOutputsWithBitOperations ==
    LET LED0 == 0  LED1 == 1  LED2 == 2  LED3 == 3
        LED4 == 4  LED5 == 5  LED6 == 6  LED7 == 7
    IN  << BitSetOutputs(LED1), WriteOutputs, Delay,
           BitClearOutputs(LED1), BitSetOutputs(LED6), WriteOutputs, Delay,
           BitClearOutputs(LED6), WriteOutputs, Delay,
           BitSetOutputs(LED0), BitSetOutputs(LED2),
           BitSetOutputs(LED4), BitSetOutputs(LED6), WriteOutputs, Delay,
           BitClearOutputs(LED0), BitClearOutputs(LED2),
           BitClearOutputs(LED4), BitClearOutputs(LED6),
           BitSetOutputs(LED1), BitSetOutputs(LED3),
           BitSetOutputs(LED5), BitSetOutputs(LED7), WriteOutputs, Delay,
           BitClearOutputs(LED1), BitClearOutputs(LED3),
           BitClearOutputs(LED5), BitClearOutputs(LED7), WriteOutputs, Delay >>

\* The four functions loop() calls.
OutputApproaches ==
    {"changeOutputsWithDigitalWrite", "changeOutputsWithBinaryValues",
     "changeOutputsWithDefinedNames", "changeOutputsWithBitOperations"}

\* The statements of function f.
Program(f) ==
    CASE f = "setup" -> setup
      [] f = "changeOutputsWithDigitalWrite" -> changeOutputsWithDigitalWrite
      [] f = "changeOutputsWithBinaryValues" -> changeOutputsWithBinaryValues
      [] f = "changeOutputsWithDefinedNames" -> changeOutputsWithDefinedNames
      [] f = "changeOutputsWithBitOperations" -> changeOutputsWithBitOperations
      [] OTHER -> <<>>

\* loop(): the function called after f has returned; loop() is called again
\* after its last one, and first after setup().
NextFunction(f) ==
    CASE f = "changeOutputsWithDigitalWrite" -> "changeOutputsWithBinaryValues"
      [] f = "changeOutputsWithBinaryValues" -> "changeOutputsWithDefinedNames"
      [] f = "changeOutputsWithDefinedNames" -> "changeOutputsWithBitOperations"
      [] OTHER -> "changeOutputsWithDigitalWrite"

\* The running function is at a statement of kind k, nothing it called is
\* still running.
AtStatement(k) ==
    /\ ip < Len(Program(fn))
    /\ Program(fn)[ip + 1][1] = k
    /\ dwPc = "idle"
    /\ osrPc = "call"

\* The first and the second operand of the statement the function is at.
Operand1 == Program(fn)[ip + 1][2]
Operand2 == Program(fn)[ip + 1][3]

\* osrDigitalWrite(LEDn, value);
SketchDigitalWrite ==
    /\ AtStatement("osrDigitalWrite")
    /\ osrDigitalWrite(Operand1, Operand2)

\* osrWriteRegister(0b...); or osrWriteRegister(LEDn | ...);
SketchWriteRegister ==
    /\ AtStatement("osrWriteRegister")
    /\ osrWriteRegister(Operand1)

\* changeOutputsWithBitOperations: osrWriteRegister(outputs);
SketchWriteOutputs ==
    /\ AtStatement("osrWriteRegister(outputs)")
    /\ osrWriteRegister(localOutputs)

\* changeOutputsWithBitOperations: bitSet(outputs, LEDn);
SketchBitSet ==
    /\ AtStatement("bitSet")
    /\ localOutputs' = bitSet(localOutputs, Operand1)
    /\ ip' = ip + 1
    /\ UNCHANGED <<outputs, dwPc, dwPin, dwValue, dwBefore, fn, holds>>
    /\ UNCHANGED <<peVars, osrVars, isrVars, bitVars, isrCallVars, loopVars>>

\* A faulty variant: the bit is left as it is.
SketchBitClear_Omitted ==
    /\ AtStatement("bitClear")
    /\ ip' = ip + 1
    /\ UNCHANGED <<outputs, dwPc, dwPin, dwValue, dwBefore, fn, localOutputs, holds>>
    /\ UNCHANGED <<peVars, osrVars, isrVars, bitVars, isrCallVars, loopVars>>

\* changeOutputsWithBitOperations: bitClear(outputs, LEDn);
SketchBitClear ==
    /\ AtStatement("bitClear")
    /\ localOutputs' = bitClear(localOutputs, Operand1)
    /\ ip' = ip + 1
    /\ UNCHANGED <<outputs, dwPc, dwPin, dwValue, dwBefore, fn, holds>>
    /\ UNCHANGED <<peVars, osrVars, isrVars, bitVars, isrCallVars, loopVars>>

\* delay(1000); the outputs are held for a second.
SketchDelay ==
    /\ AtStatement("delay")
    /\ holds' = Append(holds, osrOut)
    /\ ip' = ip + 1
    /\ UNCHANGED <<outputs, dwPc, dwPin, dwValue, dwBefore, fn, localOutputs>>
    /\ UNCHANGED <<peVars, osrVars, isrVars, bitVars, isrCallVars, loopVars>>

\* The function returns and loop() calls the next one, or is called again;
\* changeOutputsWithBitOperations starts with uint8_t outputs = 0.
SketchFunctionReturns ==
    /\ fn \in OutputApproaches \cup {"setup"}
    /\ ip = Len(Program(fn))
    /\ fn' = NextFunction(fn)
    /\ ip' = 0
    /\ holds' = <<>>
    /\ localOutputs' = 0
    /\ UNCHANGED <<outputs, dwPc, dwPin, dwValue, dwBefore>>
    /\ UNCHANGED <<peVars, osrVars, isrVars, bitVars, isrCallVars, loopVars>>

\* The sketch is at the closing brace of function f.
AtEndOf(f) == fn = f /\ ip = Len(Program(f))

\* C16: the four functions loop() calls are implementations of the same
\* operation: at the six delay(1000) of each of them the outputs hold, in
\* this order, 0b00000010, 0b01000000, 0b00000000, 0b01010101, 0b10101010
\* and 0b00000000.
C16_SameSixHolds ==
    fn \in OutputApproaches =>
        /\ Len(holds) <= 6
        /\ \A k \in 1..Len(holds) : holds[k] = <<2, 64, 0, 85, 170, 0>>[k]
        /\ ip = Len(Program(fn)) => Len(holds) = 6

\* C16 witness: changeOutputsWithBitOperations, the last of the four, has
\* passed its six delays.
C16_Witness ==
    /\ AtEndOf("changeOutputsWithBitOperations")
    /\ Len(holds) = 6
    /\ holds[4] = 85

\* C18: as setup() and loop() run the sketch, the byte osrDigitalWrite
\* retains equals the byte latched on the outputs whenever osrDigitalWrite
\* is entered; after setup() and at the end of every loop() both are 0,
\* although the direct osrWriteRegister calls never update the retained byte.
C18_RetainedEqualsLatched ==
    /\ [](AtEndOf("setup") \/ AtEndOf("changeOutputsWithBitOperations")
            => outputs = 0 /\ osrOut = 0)
    /\ [][(dwPc = "idle" /\ dwPc' = "write") => outputs = osrOut]_vars

\* C18 witness: osrDigitalWrite(LED0, LOW) has been entered with the even
\* LEDs on, after the three other functions have written the register
\* directly.
C18_Witness ==
    /\ fn = "changeOutputsWithDigitalWrite"
    /\ dwPc = "write"
    /\ dwPin = 0
    /\ dwValue = LOW
    /\ dwBefore = 85
    /\ outputs = 84
    /\ osrOut = 85

\* Code outside the sketch's own functions calls osrDigitalWrite(p, v).
CallerDigitalWrite(p, v) ==
    /\ fn = "caller"
    /\ ip < MaxCalls
    /\ osrDigitalWrite(p, v)

\* Code outside the sketch's own functions calls osrWriteRegister(b).
CallerWriteRegister(b) ==
    /\ fn = "caller"
    /\ ip < MaxCalls
    /\ dwPc = "idle"
    /\ osrWriteRegister(b)

\* C12: osrDigitalWrite(pin, value) with a value other than LOW and HIGH is
\* ignored: whatever calls of osrDigitalWrite and osrWriteRegister came
\* before, all 8 outputs keep the levels they had when it was entered.
C12_OtherValueIgnored ==
    (dwPc = "write" /\ dwValue \notin {LOW, HIGH}) => osrOut = dwBefore

\* C13: osrDigitalWrite(pin, value) with pin in 0..7 and value LOW or HIGH
\* sets a single output: whatever calls of osrDigitalWrite and
\* osrWriteRegister came before, when it returns output pin has the value
\* and the other seven outputs have the levels they had when it was entered.
C13_SetsSingleOutput ==
    (dwPc = "write" /\ osrPc = "ret" /\ dwValue \in {LOW, HIGH}) =>
        /\ bitRead(osrOut, dwPin) = dwValue
        /\ SameOtherBits(osrOut, dwBefore, dwPin)

(***************************************************************************)
(* InputShiftRegister.ino: readAndPrintInputsOnChange, and a caller that   *)
(* writes the byte read to the output register.                            *)
(***************************************************************************)
\* Before anything has called: the static byte has its initializer.
IsrCallersAtRest ==
    /\ readerPc = "call"
    /\ previousInputs = 0
    /\ currentInputs = 0
    /\ printed = <<>>
    /\ lastPrinted = <<>>
    /\ lastRead = 0

\* for (int i = 7; i >= 0; i--) Serial.print(bitRead(currentInputs, i));
\* the digits printed from index i down.
RECURSIVE PrintDigits(_, _)
PrintDigits(b, i) ==
    IF i < 0 THEN <<>> ELSE <<bitRead(b, i)>> \o PrintDigits(b, i - 1)

\* readAndPrintInputsOnChange() is entered and calls isrReadRegister().
readAndPrintInputsOnChange ==
    /\ readerPc = "call"
    /\ isrReadRegister

\* isrReadRegister returns: uint8_t currentInputs = isrReadRegister();
ReadForCompareReturns ==
    /\ readerPc = "call"
    /\ isrPc = "return"
    /\ isrRet' = isrVal
    /\ isrVal' = 0
    /\ isrPc' = "idle"
    /\ currentInputs' = isrVal
    /\ readerPc' = "compare"
    /\ UNCHANGED <<isrInputs, isrReg, isrLatchPin, isrClockPin, isrI, isrSnap,
                   isrToggles>>
    /\ UNCHANGED <<previousInputs, printed, lastPrinted, lastRead>>
    /\ UNCHANGED <<peVars, osrVars, bitVars, osrCallVars, loopVars>>

\* A faulty variant: previousInputs is not updated.
CompareAndPrint_KeepsPrevious ==
    /\ readerPc = "compare"
    /\ IF currentInputs # previousInputs
         THEN /\ printed' = PrintDigits(currentInputs, 7)
              /\ lastPrinted' = PrintDigits(currentInputs, 7)
         ELSE /\ printed' = <<>>
              /\ UNCHANGED lastPrinted
    /\ UNCHANGED previousInputs
    /\ lastRead' = currentInputs
    /\ currentInputs' = 0
    /\ readerPc' = "call"
    /\ UNCHANGED <<peVars, osrVars, isrVars, bitVars, osrCallVars, loopVars>>

\* if (currentInputs != previousInputs) { print the byte;
\*    previousInputs = currentInputs; }  and the function returns.
CompareAndPrint ==
    /\ readerPc = "compare"
    /\ IF currentInputs # previousInputs
         THEN /\ printed' = PrintDigits(currentInputs, 7)
              /\ lastPrinted' = PrintDigits(currentInputs, 7)
              /\ previousInputs' = currentInputs
         ELSE /\ printed' = <<>>
              /\ UNCHANGED <<lastPrinted, previousInputs>>
    /\ lastRead' = currentInputs
    /\ currentInputs' = 0
    /\ readerPc' = "call"
    /\ UNCHANGED <<peVars, osrVars, isrVars, bitVars, osrCallVars, loopVars>>

\* C15: a call of readAndPrintInputsOnChange prints exactly when the byte it
\* read differs from the byte the previous call read (0 before the first
\* call); what it prints is the 8 digits of the byte, bit 7 first, and never
\* the digits printed last; when it returns previousInputs is the byte read.
C15_PrintsExactlyOnChange ==
    [][(readerPc = "compare" /\ readerPc' = "call") =>
         /\ (printed' # <<>>) <=> (currentInputs # lastRead)
         /\ printed' # <<>> =>
              /\ printed' = [k \in 1..8 |-> bitRead(currentInputs, 8 - k)]
              /\ printed' # lastPrinted
         /\ previousInputs' = currentInputs
         /\ lastRead' = currentInputs]_vars

\* C15 witness: a call has read the byte the call before had read, and
\* printed nothing; the line printed last is that of the earlier call.
C15_Witness ==
    /\ readerPc = "call"
    /\ isrPc = "idle"
    /\ printed = <<>>
    /\ lastRead = 1
    /\ previousInputs = 1
    /\ lastPrinted = <<0, 0, 0, 0, 0, 0, 0, 1>>
    /\ isrToggles = 1

\* The loopback caller: osrWriteRegister(isrReadRegister()); the read is
\* entered.
LoopbackRead ==
    /\ readerPc = "loopback"
    /\ isrReadRegister

\* isrReadRegister returns its byte to the loopback caller.
LoopbackReadReturns ==
    /\ readerPc = "loopback"
    /\ isrPc = "return"
    /\ isrRet' = isrVal
    /\ isrVal' = 0
    /\ isrPc' = "idle"
    /\ readerPc' = "write"
    /\ UNCHANGED <<isrInputs, isrReg, isrLatchPin, isrClockPin, isrI, isrSnap,
                   isrToggles>>
    /\ UNCHANGED <<previousInputs, currentInputs, printed, lastPrinted, lastRead>>
    /\ UNCHANGED <<peVars, osrVars, bitVars, osrCallVars, loopVars>>

\* The byte read is written at once: osrWriteRegister is entered with it.
LoopbackWrite ==
    /\ readerPc = "write"
    /\ osrWriteRegister(isrRet)

\* C11: for every pattern on the 8 inputs, the byte isrReadRegister returns,
\* written at once by osrWriteRegister, puts the same pattern on the outputs:
\* output i has the level of input i, for i = 0..7.
C11_LoopbackRoundTrip ==
    (readerPc = "write" /\ osrPc = "ret") =>
        \A i \in Pins : bitRead(osrOut, i) = bitRead(isrInputs, i)

\* C11 witness: the inputs 0b10100101 have been read and written over the
\* outputs 0b01010101.
C11_Witness ==
    /\ readerPc = "write"
    /\ osrPc = "ret"
    /\ isrInputs = 165
    /\ osrOut = 165
    /\ osrBefore = 85

(***************************************************************************)
(* The passes of loop() that find nothing to do.                           *)
(***************************************************************************)
\* Before the first pass of loop(): the counter and the static are 0.
LoopAtRest ==
    /\ passes = 0
    /\ millis = <<0, 0>>
    /\ previousTime = <<0, 0>>
    /\ currentTime = <<0, 0>>
    /\ loopPc = "idle"
    /\ samplePin = 0
    /\ sampled = <<>>
    /\ elapsed = 0
    /\ elapsedAtRead = 0
    /\ ticks = 0

\* A faulty variant: clearInterrupts() stands outside the if.
HandlerFlagFalse_ClearsInterrupts ==
    /\ pc = "idle"
    /\ ~irq
    /\ ~switchDidChange
    /\ ExpanderCleared
    /\ passes' = 1 - passes
    /\ UNCHANGED <<switches, gpioA, intcap, irq, switchDidChange, pc, body, flagB,
                   capB, pin, value, portVal, cycle, midIsr, events>>
    /\ UNCHANGED <<millis, previousTime, currentTime, loopPc, samplePin, sampled,
                   elapsed, elapsedAtRead, ticks>>
    /\ UNCHANGED <<osrVars, isrVars, bitVars, osrCallVars, isrCallVars>>

\* readAndWritePinOnInputChange or readAndWritePortOnInputChange is called
\* with the flag false: if (switchDidChange) { ... } is skipped and the
\* function returns.
HandlerFlagFalse ==
    /\ pc = "idle"
    /\ ~irq
    /\ ~switchDidChange
    /\ passes' = 1 - passes
    /\ UNCHANGED peVars
    /\ UNCHANGED <<millis, previousTime, currentTime, loopPc, samplePin, sampled,
                   elapsed, elapsedAtRead, ticks>>
    /\ UNCHANGED <<osrVars, isrVars, bitVars, osrCallVars, isrCallVars>>

\* C22: a call of either handler that finds switchDidChange false does
\* nothing: no register of the expander is read or written, its interrupt
\* state is not cleared, port A and the flag are as before.
C22_FlagFalseIsNoOp ==
    [][(pc = "idle" /\ ~switchDidChange /\ passes' # passes) =>
         /\ pc' = "idle"
         /\ cycle' = cycle
         /\ UNCHANGED <<intf, intcap, intActive>>
         /\ gpioA' = gpioA
         /\ switchDidChange' = switchDidChange]_vars

\* C22 witness: a handler has been called with the flag false while the
\* expander held INTB low after a lost change, and has left it so.
C22_Witness ==
    /\ passes = 1
    /\ pc = "idle"
    /\ ~switchDidChange
    /\ ~irq
    /\ intActive

(***************************************************************************)
(* InputShiftRegister.ino: loop() and its sampling rate.                   *)
(***************************************************************************)
\* unsigned long is 32 bits wide; a value is kept as <<high half, low half>>
\* with halves of 16 bits.
Half == Pow2(16)

\* 1000/SAMPLE_RATE, in milliseconds
SamplePeriod == 5000

\* The 32-bit value of the number n, 0 <= n < 2^31.
Value32(n) == <<n \div Half, n % Half>>

\* a + d on unsigned long, d a number: the carry out of bit 31 is lost.
Add32(a, d) ==
    LET lo == a[2] + d
    IN  <<(a[1] + (lo \div Half)) % Half, lo % Half>>

\* a - b on unsigned long: the borrow out of bit 31 is lost.
Sub32(a, b) ==
    LET lo == a[2] - b[2]
        borrow == IF lo < 0 THEN 1 ELSE 0
    IN  <<(a[1] - b[1] - borrow + (2 * Half)) % Half, (lo + Half) % Half>>

\* a >= b on unsigned long
Ge32(a, b) == a[1] > b[1] \/ (a[1] = b[1] /\ a[2] >= b[2])

\* A faulty variant: the period is added to the time of the last sample and
\* the counter compared with the sum.
SampleDue_AddsPeriod(cur, prev) == Ge32(cur, Add32(prev, SamplePeriod))

\* currentTime - previousTime >= 1000/SAMPLE_RATE
SampleDue(cur, prev) == Ge32(Sub32(cur, prev), Value32(SamplePeriod))

\* The advances of the millisecond counter between two looks at it.
TickSteps == {1, 2500, 4999, 5000, 7000}

\* The times of a last sample the specification starts from: boot, and
\* times short of a carry into the high half and short of the wrap-around.
StartTimes ==
    {<<0, 0>>, <<0, Half - 3000>>, <<Half - 1, Half - 1>>,
     <<Half - 1, Half - 3000>>, <<Half - 1, Half - 6000>>}

\* Time passes: between two passes of loop(), or while the sample is read
\* and printed.
Tick(d) ==
    /\ ticks < MaxTicks
    /\ loopPc \in {"idle", "commit"}
    /\ ticks' = ticks + 1
    /\ millis' = Add32(millis, d)
    /\ elapsed' = elapsed + d
    /\ UNCHANGED <<passes, previousTime, currentTime, loopPc, samplePin, sampled,
                   elapsedAtRead>>
    /\ UNCHANGED <<peVars, osrVars, isrVars, bitVars, osrCallVars, isrCallVars>>

\* loop(): unsigned long currentTime = millis();
\*         if (currentTime - previousTime >= 1000/SAMPLE_RATE) {
\* when the test fails loop() returns.
LoopTest ==
    /\ loopPc = "idle"
    /\ passes' = 1 - passes
    /\ IF SampleDue(millis, previousTime)
         THEN /\ currentTime' = millis
              /\ elapsedAtRead' = elapsed
              /\ loopPc' = "sampling"
              /\ samplePin' = 0
              /\ sampled' = <<>>
         ELSE UNCHANGED <<currentTime, elapsedAtRead, loopPc, samplePin, sampled>>
    /\ UNCHANGED <<millis, previousTime, elapsed, ticks>>
    /\ UNCHANGED <<peVars, osrVars, isrVars, bitVars, osrCallVars, isrCallVars>>

\* readInputsWithDigitalRead: isrDigitalRead(InputX) calls isrReadRegister().
SampleRead ==
    /\ loopPc = "sampling"
    /\ isrReadRegister

\* isrDigitalRead: return bitRead(isrReadRegister(), pin); the level is
\* printed, and after input H readInputsWithDigitalRead returns.
SampleReadReturns ==
    /\ loopPc = "sampling"
    /\ isrPc = "return"
    /\ isrRet' = isrVal
    /\ isrVal' = 0
    /\ isrPc' = "idle"
    /\ sampled' = Append(sampled, bitRead(isrVal, samplePin))
    /\ samplePin' = samplePin + 1
    /\ loopPc' = IF samplePin + 1 < NumPins THEN "sampling" ELSE "commit"
    /\ UNCHANGED <<isrInputs, isrReg, isrLatchPin, isrClockPin, isrI, isrSnap,
                   isrToggles>>
    /\ UNCHANGED <<passes, millis, previousTime, currentTime, elapsed,
                   elapsedAtRead, ticks>>
    /\ UNCHANGED <<peVars, osrVars, bitVars, osrCallVars, isrCallVars>>

\* loop(): previousTime = currentTime; and loop() returns.
SampleCommit ==
    /\ loopPc = "commit"
    /\ previousTime' = currentTime
    /\ currentTime' = <<0, 0>>
    /\ elapsed' = elapsed - elapsedAtRead
    /\ elapsedAtRead' = 0
    /\ samplePin' = 0
    /\ loopPc' = "idle"
    /\ UNCHANGED <<passes, millis, sampled, ticks>>
    /\ UNCHANGED <<peVars, osrVars, isrVars, bitVars, osrCallVars, isrCallVars>>

\* C21: a pass of loop() takes a sample exactly when at least 5000 ms have
\* gone by since the time of the previous sample (since 0 before the first),
\* so two samples are never less than 5000 ms apart, also when the 32-bit
\* counter has wrapped around in between.
C21_SampleEveryPeriod ==
    /\ [][passes' # passes =>
            ((loopPc' = "sampling") <=> (elapsed >= 5000))]_vars
    /\ [](loopPc \in {"sampling", "commit"} => elapsedAtRead >= 5000)

\* C21 witness: a sample is being taken after the counter has wrapped
\* around; the one before was taken before the wrap.
C21_Witness ==
    /\ loopPc = "commit"
    /\ previousTime[1] = Half - 1
    /\ currentTime[1] = 0
    /\ Len(sampled) = 8

(***************************************************************************)
(* bitSet, bitClear and bitRead on a byte, as osrDigitalWrite and          *)
(* isrDigitalRead apply them.                                              *)
(***************************************************************************)
\* No helper has been applied.
BitsAtRest ==
    /\ bitB = 0
    /\ bitI = 0
    /\ bitAfterSet = 0
    /\ bitAfterClear = 0
    /\ bitPc = "start"

\* bitSet(outputs, pin)
BitSetStep ==
    /\ bitPc = "start"
    /\ bitAfterSet' = bitSet(bitB, bitI)
    /\ bitPc' = "set"
    /\ UNCHANGED <<bitB, bitI, bitAfterClear>>
    /\ UNCHANGED <<peVars, osrVars, isrVars, osrCallVars, isrCallVars, loopVars>>

\* bitClear(outputs, pin) on the byte bitSet has produced
BitClearAfterSet ==
    /\ bitPc = "set"
    /\ bitAfterClear' = bitClear(bitAfterSet, bitI)
    /\ bitPc' = "setcleared"
    /\ UNCHANGED <<bitB, bitI, bitAfterSet>>
    /\ UNCHANGED <<peVars, osrVars, isrVars, osrCallVars, isrCallVars, loopVars>>

\* bitClear(outputs, pin) on the byte itself
BitClearStep ==
    /\ bitPc = "start"
    /\ bitAfterClear' = bitClear(bitB, bitI)
    /\ bitPc' = "cleared"
    /\ UNCHANGED <<bitB, bitI, bitAfterSet>>
    /\ UNCHANGED <<peVars, osrVars, isrVars, osrCallVars, isrCallVars, loopVars>>

\* C14: for every byte b and every i in 0..7: after bitSet bit i reads 1,
\* after bitClear (on b, or on b with bit i set) bit i reads 0, the result is
\* a byte, and the other seven bits are those of b: setting then clearing
\* bit i gives b with bit i cleared.
C14_BitHelpersRoundTrip ==
    /\ bitPc \in {"set", "setcleared"} =>
          /\ bitAfterSet \in Byte
          /\ bitRead(bitAfterSet, bitI) = 1
          /\ SameOtherBits(bitAfterSet, bitB, bitI)
    /\ bitPc \in {"cleared", "setcleared"} =>
          /\ bitAfterClear \in Byte
          /\ bitRead(bitAfterClear, bitI) = 0
          /\ SameOtherBits(bitAfterClear, bitB, bitI)

\* C14 witness: bit 3 of 0b10100101 (clear) has been set and cleared again.
C14_Witness ==
    /\ bitPc = "setcleared"
    /\ bitB = 165
    /\ bitI = 3
    /\ bitAfterSet = 173
    /\ bitAfterClear = 165

(***************************************************************************)
(* The specifications.                                                     *)
(***************************************************************************)
\* Nothing of the callers has run.
CallersAtRest ==
    /\ BitsAtRest
    /\ OsrCallersAtRest
    /\ IsrCallersAtRest
    /\ LoopAtRest

\* After setup(): ports reset, interrupts cleared, the callback attached.
PeAfterSetup ==
    /\ switches = 0
    /\ gpioA = 0
    /\ intf = 0
    /\ intcap = 0
    /\ intActive = FALSE
    /\ irq = FALSE
    /\ switchDidChange = FALSE
    /\ pc = "idle"
    /\ flagB = 0
    /\ capB = 0
    /\ pin = 0
    /\ value = 0
    /\ portVal = 0
    /\ cycle = <<>>
    /\ midIsr = FALSE
    /\ events = 0

\* The PortExpander sketch with its interrupts; loop() calls one of the two
\* interrupt-driven handlers.
InitPE ==
    /\ PeAfterSetup
    /\ body \in {"pin", "port"}
    /\ OsrAfterWrite(0)
    /\ IsrAfterSetup(0)
    /\ CallersAtRest

NextPE ==
    \/ \E S \in ChangeSets : InputChange(S)
    \/ SpuriousEdge
    \/ mcp23017ChangeDetectedOnPortB
    \/ LoopObserve
    \/ SettleDelay
    \/ PinInterruptedBy
    \/ PinClearInterrupts
    \/ PinResolve
    \/ PinDigitalWrite
    \/ PortRead
    \/ PortWrite
    \/ PortClearInterrupts
    \/ ClearFlag

SpecPE == InitPE /\ [][NextPE]_vars

\* The same with the scheduling the microcontroller gives: the loop keeps
\* running and a callback that is due runs. Nothing obliges the environment.
NextProgramPE ==
    \/ mcp23017ChangeDetectedOnPortB
    \/ LoopObserve
    \/ SettleDelay
    \/ PinInterruptedBy
    \/ PinClearInterrupts
    \/ PinResolve
    \/ PinDigitalWrite
    \/ PortRead
    \/ PortWrite
    \/ PortClearInterrupts
    \/ ClearFlag

SpecPEFair == SpecPE /\ WF_vars(NextProgramPE)

\* One pass of readAndWritePinOnInputChange over every content of the
\* expander's registers: the callback has run, INTFB holds f, INTCAPB holds c,
\* the LEDs are all off or all on, and the switches are as captured or have
\* all changed since.
InitPin ==
    /\ \E f \in Byte, c \in Byte :
         /\ intf = f
         /\ intcap = c
         /\ intActive = (f # 0)
         /\ switches \in {c, 255 - c}
    /\ gpioA \in {0, 255}
    /\ irq = FALSE
    /\ switchDidChange = TRUE
    /\ pc = "idle"
    /\ body = "pin"
    /\ flagB = 0
    /\ capB = 0
    /\ pin = 0
    /\ value = 0
    /\ portVal = 0
    /\ cycle = <<>>
    /\ midIsr = FALSE
    /\ events = 0
    /\ OsrAfterWrite(0)
    /\ IsrAfterSetup(0)
    /\ CallersAtRest

NextPin ==
    \/ LoopObserve
    \/ SettleDelay
    \/ PinInterruptedBy
    \/ PinClearInterrupts
    \/ PinResolve
    \/ PinDigitalWrite
    \/ ClearFlag

SpecPin == InitPin /\ [][NextPin]_vars

\* One call of osrWriteRegister, with any byte, from any of the latched bytes.
InitOSR ==
    /\ \E p \in LatchedBefore : OsrAfterWrite(p)
    /\ PeAfterSetup
    /\ body = "pin"
    /\ IsrAfterSetup(0)
    /\ CallersAtRest

NextOSR ==
    \/ \E b \in Byte : osrWriteRegister(b)
    \/ OsrLatchLow
    \/ OsrShiftData
    \/ OsrShiftClockHigh
    \/ OsrShiftClockLow
    \/ OsrLatchHigh

SpecOSR == InitOSR /\ [][NextOSR]_vars

\* Calls of isrReadRegister, one after the other, while the inputs change.
InitISR ==
    /\ \E in \in Byte : IsrAfterSetup(in)
    /\ CallersAtRest
    /\ PeAfterSetup
    /\ body = "pin"
    /\ OsrAfterWrite(0)

NextISR ==
    \/ \E i \in Pins : IsrInputChange(i)
    \/ isrReadRegister
    \/ IsrPresetClock
    \/ IsrLatchHigh
    \/ IsrShiftClockHigh
    \/ IsrShiftRead
    \/ IsrShiftClockLow
    \/ IsrLatchLow
    \/ IsrReturn

SpecISR == InitISR /\ [][NextISR]_vars

\* bitSet, bitClear and bitRead applied to every byte at every bit index.
InitBits ==
    /\ bitB \in Byte
    /\ bitI \in Pins
    /\ bitAfterSet = 0
    /\ bitAfterClear = 0
    /\ bitPc = "start"
    /\ OsrCallersAtRest
    /\ IsrCallersAtRest
    /\ LoopAtRest
    /\ PeAfterSetup
    /\ body = "pin"
    /\ OsrAfterWrite(0)
    /\ IsrAfterSetup(0)

NextBits ==
    \/ BitSetStep
    \/ BitClearAfterSet
    \/ BitClearStep

SpecBits == InitBits /\ [][NextBits]_vars

\* osrDigitalWrite and osrWriteRegister called in any order, with any
\* arguments, after setup().
InitOsrCalls ==
    /\ OsrAfterWrite(0)
    /\ outputs = 0
    /\ dwPc = "idle"
    /\ dwPin = 0
    /\ dwValue = LOW
    /\ dwBefore = 0
    /\ fn = "caller"
    /\ ip = 0
    /\ localOutputs = 0
    /\ holds = <<>>
    /\ BitsAtRest
    /\ IsrCallersAtRest
    /\ LoopAtRest
    /\ PeAfterSetup
    /\ body = "pin"
    /\ IsrAfterSetup(0)

NextOsrCalls ==
    \/ \E p \in Pins, v \in {LOW, HIGH} \cup OtherValues : CallerDigitalWrite(p, v)
    \/ \E b \in LatchedBefore : CallerWriteRegister(b)
    \/ DwWriteRegister
    \/ OsrLatchLow
    \/ OsrShiftData
    \/ OsrShiftClockHigh
    \/ OsrShiftClockLow
    \/ OsrLatchHigh
    \/ DwReturns
    \/ WriteReturns

SpecOsrCalls == InitOsrCalls /\ [][NextOsrCalls]_vars

\* The OutputShiftRegister sketch from power-on: the pins are outputs and
\* LOW, the 74HC595 holds whatever it powered up with, setup() is about to
\* write the register.
InitSketch ==
    /\ osrDataPin = LOW
    /\ osrLatchPin = LOW
    /\ osrClockPin = LOW
    /\ osrShift \in LatchedBefore
    /\ osrOut \in LatchedBefore
    /\ osrPc = "call"
    /\ osrI = 0
    /\ osrArg = 0
    /\ osrBefore = osrOut
    /\ outputs = 0
    /\ dwPc = "idle"
    /\ dwPin = 0
    /\ dwValue = LOW
    /\ dwBefore = 0
    /\ fn = "setup"
    /\ ip = 0
    /\ localOutputs = 0
    /\ holds = <<>>
    /\ BitsAtRest
    /\ IsrCallersAtRest
    /\ LoopAtRest
    /\ PeAfterSetup
    /\ body = "pin"
    /\ IsrAfterSetup(0)

NextSketch ==
    \/ SketchDigitalWrite
    \/ SketchWriteRegister
    \/ SketchWriteOutputs
    \/ SketchBitSet
    \/ SketchBitClear
    \/ SketchDelay
    \/ SketchFunctionReturns
    \/ DwWriteRegister
    \/ OsrLatchLow
    \/ OsrShiftData
    \/ OsrShiftClockHigh
    \/ OsrShiftClockLow
    \/ OsrLatchHigh
    \/ DwReturns
    \/ WriteReturns

SpecSketch == InitSketch /\ [][NextSketch]_vars

\* readAndPrintInputsOnChange called again and again (the loop body the
\* sketch offers in place of the sampled read) while the inputs change.
InitOnChange ==
    /\ \E in \in {0, 165} : IsrAfterSetup(in)
    /\ CallersAtRest
    /\ PeAfterSetup
    /\ body = "pin"
    /\ OsrAfterWrite(0)

NextOnChange ==
    \/ \E i \in Pins : IsrInputChange(i)
    \/ readAndPrintInputsOnChange
    \/ IsrPresetClock
    \/ IsrLatchHigh
    \/ IsrShiftClockHigh
    \/ IsrShiftRead
    \/ IsrShiftClockLow
    \/ IsrLatchLow
    \/ ReadForCompareReturns
    \/ CompareAndPrint

SpecOnChange == InitOnChange /\ [][NextOnChange]_vars

\* The loopback: the input register is read and the byte written to the
\* output register, for every pattern on the inputs and several bytes
\* latched on the outputs before.
InitLoopback ==
    /\ \E in \in Byte : IsrAfterSetup(in)
    /\ \E p \in LatchedBefore : OsrAfterWrite(p)
    /\ BitsAtRest
    /\ OsrCallersAtRest
    /\ readerPc = "loopback"
    /\ previousInputs = 0
    /\ currentInputs = 0
    /\ printed = <<>>
    /\ lastPrinted = <<>>
    /\ lastRead = 0
    /\ LoopAtRest
    /\ PeAfterSetup
    /\ body = "pin"

NextLoopback ==
    \/ LoopbackRead
    \/ IsrPresetClock
    \/ IsrLatchHigh
    \/ IsrShiftClockHigh
    \/ IsrShiftRead
    \/ IsrShiftClockLow
    \/ IsrLatchLow
    \/ LoopbackReadReturns
    \/ LoopbackWrite
    \/ OsrLatchLow
    \/ OsrShiftData
    \/ OsrShiftClockHigh
    \/ OsrShiftClockLow
    \/ OsrLatchHigh

SpecLoopback == InitLoopback /\ [][NextLoopback]_vars

\* The PortExpander sketch with the loop passes that find the flag false.
NextPEPasses ==
    \/ \E S \in ChangeSets : InputChange(S)
    \/ SpuriousEdge
    \/ mcp23017ChangeDetectedOnPortB
    \/ HandlerFlagFalse
    \/ LoopObserve
    \/ SettleDelay
    \/ PinInterruptedBy
    \/ PinClearInterrupts
    \/ PinResolve
    \/ PinDigitalWrite
    \/ PortRead
    \/ PortWrite
    \/ PortClearInterrupts
    \/ ClearFlag

SpecPEPasses == InitPE /\ [][NextPEPasses]_vars

\* loop() of InputShiftRegister.ino, called again and again while time
\* passes, from boot and from a sample taken just before the counter wraps.
InitSampling ==
    /\ \E t \in StartTimes : millis = t /\ previousTime = t
    /\ passes = 0
    /\ currentTime = <<0, 0>>
    /\ loopPc = "idle"
    /\ samplePin = 0
    /\ sampled = <<>>
    /\ elapsed = 0
    /\ elapsedAtRead = 0
    /\ ticks = 0
    /\ \E in \in {0, 165} : IsrAfterSetup(in)
    /\ BitsAtRest
    /\ OsrCallersAtRest
    /\ IsrCallersAtRest
    /\ PeAfterSetup
    /\ body = "pin"
    /\ OsrAfterWrite(0)

NextSampling ==
    \/ \E d \in TickSteps : Tick(d)
    \/ LoopTest
    \/ SampleRead
    \/ IsrPresetClock
    \/ IsrLatchHigh
    \/ IsrShiftClockHigh
    \/ IsrShiftRead
    \/ IsrShiftClockLow
    \/ IsrLatchLow
    \/ SampleReadReturns
    \/ SampleCommit

SpecSampling == InitSampling /\ [][NextSampling]_vars

=============================================================================
